---- MODULE Spec2Model ----
(***************************************************************************)
(* The batching pipeline (generate_arrays_from_list), the epoch runner     *)
(* (run_epoch), the epoch-size estimator (get_epoch_size) and the wiring   *)
(* in main of src/lstm/lstm_frag.py, as a state machine.                   *)
(*                                                                         *)
(* A generator object is a record whose pc is its suspension point.  A     *)
(* file is named by its number of words n and holds the ids 1..n; an       *)
(* embedding vector is the pair (token, dimension).  The tensor engine     *)
(* (session.run) is a deterministic function of the state and the batch    *)
(* that refuses a feed whose shape is not the placeholder's.               *)
(***************************************************************************)
EXTENDS Integers, Sequences, FiniteSets, TLC

VARIABLES gen, drv, heap, main, ep

vars == <<gen, drv, heap, main, ep>>

\* ------------------------------------------------------------- bounds
MaxFiles == 2
MaxWords == 10
MaxBatch == 2
MaxSteps == 2
MaxManifest == 7
GenEmbeddingSize == 2

Gens == {"Train", "Validation", "Test"}

Min(a, b) == IF a < b THEN a ELSE b

Max(a, b) == IF a > b THEN a ELSE b

\* ------------------------------------------------------- files, tables
\* The text of the file named n: n words, the ids 1..n, each followed by
\* white space (written 0).
FileText(name) == [p \in 1..(2 * name) |-> IF p % 2 = 1 THEN (p + 1) \div 2 ELSE 0]

\* VectorManager.parse_into_list: the words of the text, in order.
parse_into_list(text) == SelectSeq(text, LAMBDA w : w # 0)

\* wc -w <file>: the number of white-space separated words.
wc_w(name) == Len(SelectSeq(FileText(name), LAMBDA w : w # 0))

\* The embedding table loaded for one embedding size: id -> entry, the
\* vector being the entry's third element (embeddings[id][2], counted from 0).
EmbeddingEntry(dim, id) == <<id, 0, [tok |-> id, dim |-> dim]>>

\* ------------------------------------------------------- numpy helpers
\* s[lo:hi] of Python, for 0 <= lo: both ends clamped to the length.
PySlice(s, lo, hi) == SubSeq(s, Min(lo, Len(s)) + 1, Min(hi, Len(s)))

\* data[0:rows, lo:hi]
Columns(data, rows, lo, hi) == [b \in 1..Min(rows, Len(data)) |-> PySlice(data[b], lo, hi)]

Width(m) == IF Len(m) = 0 THEN 0 ELSE Len(m[1])

\* The elements of a matrix in row-major order.
Flat(m) == [k \in 1..(Len(m) * Width(m)) |-> m[((k - 1) \div Width(m)) + 1][((k - 1) % Width(m)) + 1]]

\* np.reshape(flat, [rows, cols]) of a flat sequence of rows*cols elements.
Reshape2(flat, rows, cols) == [r \in 1..rows |-> [c \in 1..cols |-> flat[(r - 1) * cols + c]]]

\* np.reshape raises ValueError unless the sizes agree.
CanReshape(size, newsize) == size = newsize

\* The size of the list of lists of vectors x: every vector counts its dimension.
SizeOfX(x) == IF Width(x) = 0 THEN 0 ELSE Len(x) * Width(x) * x[1][1].dim

NoBatch == [x |-> <<>>, y |-> <<>>]

\* ------------------------------------------- generate_arrays_from_list
NoGen == [pc |-> "none", files |-> <<>>, num_steps |-> 0, batch_size |-> 0,
          embedding_size |-> 0, dim |-> 0, fidx |-> 0, n_words |-> 0,
          batch_len |-> 0, data |-> <<>>, i |-> 0, out |-> NoBatch,
          kfile |-> 0, kscan |-> 0, lastscan |-> 0, period |-> 0, scans |-> 0,
          visited |-> 0, first |-> NoBatch]

\* The call generate_arrays_from_list(name, files, embeddings, ...): a
\* generator object suspended before its first statement.  dim is the
\* dimension of the vectors of the table passed as embeddings.
NewGen(files, dim, num_steps, batch_size, embedding_size) ==
    [NoGen EXCEPT !.pc = "start", !.files = files, !.dim = dim,
                  !.num_steps = num_steps, !.batch_size = batch_size,
                  !.embedding_size = embedding_size]

\* generator.next(): what the call does to the generator before it runs.
Resume(r) ==
    CASE r.pc = "start" -> [r EXCEPT !.pc = "files", !.visited = 0]
      [] r.pc = "yield" -> [r EXCEPT !.pc = "range", !.i = r.i + r.num_steps, !.visited = 0]
      [] OTHER -> [r EXCEPT !.pc = "exhausted"]

\* x = data[0:batch_size, i * num_steps:(i + 1) * num_steps]
XIds(data, batch_size, i, num_steps) ==
    Columns(data, batch_size, i * num_steps, (i + 1) * num_steps)

\* x = [[embeddings[int(elem)][2] for elem in l] for l in x]
Embed(dim, ids) == [b \in 1..Len(ids) |-> [t \in 1..Len(ids[b]) |-> EmbeddingEntry(dim, ids[b][t])[3]]]

\* The targets taken a whole window to the right, not one column.
YIdsByNumSteps(data, batch_size, i, num_steps) ==
    Columns(data, batch_size, (i + 1) * num_steps, (i + 2) * num_steps)

\* y = data[0:batch_size, i * num_steps + 1:(i + 1) * num_steps + 1]
YIds(data, batch_size, i, num_steps) ==
    Columns(data, batch_size, i * num_steps + 1, (i + 1) * num_steps + 1)

\* raw_list -> data: the first batch_size*batch_len ids, reshaped.
ReshapeData(raw_list, batch_size) ==
    LET batch_len == Len(raw_list) \div batch_size
    IN  Reshape2(PySlice(raw_list, 0, batch_size * batch_len), batch_size, batch_len)

\* `for file_name in files` under `while 1`: the next file is read and
\* reshaped, or the list is exhausted and the while loop starts it again.
GenForFiles(g) ==
    /\ gen[g].pc = "files"
    /\ LET r == gen[g]
       IN  IF r.fidx < Len(r.files)
           THEN LET raw_list == parse_into_list(FileText(r.files[r.fidx + 1]))
                IN  gen' = [gen EXCEPT ![g] =
                        [r EXCEPT !.pc = "range", !.fidx = r.fidx + 1,
                                  !.n_words = Len(raw_list),
                                  !.batch_len = Len(raw_list) \div r.batch_size,
                                  !.data = ReshapeData(raw_list, r.batch_size),
                                  !.i = 0, !.kfile = 0,
                                  !.visited = Min(r.visited + 1, Len(r.files) + 1)]]
           ELSE gen' = [gen EXCEPT ![g] =
                        [r EXCEPT !.fidx = 0, !.kscan = 0, !.lastscan = r.kscan,
                                  !.period = IF r.scans = 0 THEN r.kscan ELSE r.period,
                                  !.scans = Min(r.scans + 1, 2)]]
    /\ UNCHANGED <<drv, heap, main, ep>>

\* One turn of `for i in range(0, n_words - num_steps, num_steps)`: the
\* range is exhausted, or the body breaks, raises in a reshape, or yields.
GenForRange(g) ==
    /\ gen[g].pc = "range"
    /\ LET r == gen[g]
           x == Embed(r.dim, XIds(r.data, r.batch_size, r.i, r.num_steps))
           y == YIds(r.data, r.batch_size, r.i, r.num_steps)
       IN  IF ~(r.i < r.n_words - r.num_steps)
           THEN gen' = [gen EXCEPT ![g] = [r EXCEPT !.pc = "files"]]
           ELSE IF Len(x[1]) < r.num_steps
           THEN gen' = [gen EXCEPT ![g] = [r EXCEPT !.pc = "files"]]
           ELSE IF ~CanReshape(SizeOfX(x), r.batch_size * r.num_steps * r.embedding_size)
           THEN gen' = [gen EXCEPT ![g] = [r EXCEPT !.pc = "raised"]]
           ELSE IF ~CanReshape(Len(y) * Width(y), r.batch_size * r.num_steps)
           THEN gen' = [gen EXCEPT ![g] = [r EXCEPT !.pc = "raised"]]
           ELSE LET batch == [x |-> x, y |-> Reshape2(Flat(y), r.batch_size, r.num_steps)]
                IN  gen' = [gen EXCEPT ![g] =
                        [r EXCEPT !.pc = "yield", !.out = batch,
                                  !.kfile = r.kfile + 1, !.kscan = r.kscan + 1,
                                  !.first = IF r.first = NoBatch THEN batch ELSE r.first]]
    /\ UNCHANGED <<drv, heap, main, ep>>

\* ------------------------------------------------ a caller that only draws
NoEpoch == [pc |-> "idle", gen |-> "Train", model |-> "m", verbose |-> FALSE,
            step |-> 0, state |-> 0, costs |-> 0, iters |-> 0,
            runs |-> 0, fed |-> 0, lastFinal |-> 0, prevFinal |-> 0, err |-> "none"]

NoMain == [pc |-> "off"]

\* x, y = generator.next(), called on a suspended or finished generator.
Draw ==
    /\ drv = "idle"
    /\ gen["Train"].pc \in {"start", "yield", "raised", "exhausted"}
    /\ gen' = [gen EXCEPT !["Train"] = Resume(gen["Train"])]
    /\ drv' = "next"
    /\ UNCHANGED <<heap, main, ep>>

\* The call returns a batch.
Receive ==
    /\ drv = "next"
    /\ gen["Train"].pc = "yield"
    /\ drv' = "idle"
    /\ UNCHANGED <<gen, heap, main, ep>>

\* The call ends in an exception: the ValueError of a reshape, or the
\* StopIteration of a finished generator.
Except ==
    /\ drv = "next"
    /\ gen["Train"].pc \in {"raised", "exhausted"}
    /\ drv' = IF gen["Train"].pc = "raised" THEN "idle" ELSE "stopped"
    /\ UNCHANGED <<gen, heap, main, ep>>

FileLists == UNION {[1..n -> 0..MaxWords] : n \in 0..MaxFiles}

InitGen ==
    /\ \E files \in FileLists, num_steps \in 1..MaxSteps, batch_size \in 1..MaxBatch :
          gen = [g \in Gens |-> IF g = "Train"
                                THEN NewGen(files, GenEmbeddingSize, num_steps, batch_size, GenEmbeddingSize)
                                ELSE NoGen]
    /\ drv = "idle"
    /\ heap = <<>>
    /\ main = NoMain
    /\ ep = NoEpoch

NextGen ==
    \/ Draw
    \/ Receive
    \/ Except
    \/ GenForFiles("Train")
    \/ GenForRange("Train")

SpecGen == InitGen /\ [][NextGen]_vars

\* ------------------------------------------------------------ configs
\* get_config(): a fresh object of the preset's class (the integer fields
\* the pipeline, the estimator and the epoch loop read).
get_config(model) ==
    CASE model = "small"  -> [num_steps |-> 20, batch_size |-> 20, max_max_epoch |-> 13,
                              vocab_size |-> 126930, embedding_size |-> 200, epoch_size |-> 1]
      [] model = "medium" -> [num_steps |-> 35, batch_size |-> 20, max_max_epoch |-> 39,
                              vocab_size |-> 126930, embedding_size |-> 200, epoch_size |-> 1]
      [] model = "large"  -> [num_steps |-> 35, batch_size |-> 20, max_max_epoch |-> 55,
                              vocab_size |-> 126930, embedding_size |-> 1000, epoch_size |-> 1]
      [] model = "test"   -> [num_steps |-> 2, batch_size |-> 10, max_max_epoch |-> 1,
                              vocab_size |-> 126930, embedding_size |-> 200, epoch_size |-> 1]

Presets == {"small", "medium", "large", "test"}

RECURSIVE TotalWords(_)
TotalWords(files) ==
    IF files = <<>> THEN 0 ELSE wc_w(Head(files)) + TotalWords(Tail(files))

\* get_epoch_size(files, config)
get_epoch_size(files, config) ==
    ((TotalWords(files) \div config.batch_size) - 1) \div config.num_steps

\* WPModel(is_training, config): the model keeps the config object and
\* builds its placeholders with the shapes the config holds at that time.
WPModel(is_training, ref, h) ==
    [config |-> ref, is_training |-> is_training,
     inputs |-> <<h[ref].batch_size, h[ref].num_steps, h[ref].embedding_size>>,
     targets |-> <<h[ref].batch_size, h[ref].num_steps>>]

\* The shape of a batch's x (a list of lists of vectors) and y.
ShapeX(x) == <<Len(x), Width(x), IF Width(x) = 0 THEN 0 ELSE x[1][1].dim>>

ShapeY(y) == <<Len(y), Width(y)>>

\* ------------------------------------------------------------- main
\* main up to the epoch sizes: the two config objects, the three file lists
\* and the three get_epoch_size calls.  config and valid_config are one
\* object (valid_config = config); eval_config is a second one.
MainConfigure ==
    /\ main.pc = "start"
    /\ LET files == main.manifest
           n == Len(files)
           config == "config"
           valid_config == config
           eval_config == "eval_config"
           training_list == SubSeq(files, 1, (8 * n) \div 10)
           validation_list == SubSeq(files, ((8 * n) \div 10) + 1, (9 * n) \div 10)
           testing_list == SubSeq(files, ((9 * n) \div 10) + 1, n)
           h0 == [o \in {config, eval_config} |->
                    IF o = config
                    THEN get_config(main.model)
                    ELSE [get_config(main.model) EXCEPT !.batch_size = 1, !.num_steps = 1]]
           e1 == get_epoch_size(training_list, h0[config])
           h1 == [h0 EXCEPT ![config].epoch_size = e1]
           e2 == get_epoch_size(validation_list, h1[valid_config])
           h2 == [h1 EXCEPT ![valid_config].epoch_size = e2]
           e3 == get_epoch_size(testing_list, h2[eval_config])
           h3 == [h2 EXCEPT ![eval_config].epoch_size = e3]
       IN  /\ heap' = h3
           /\ main' = [main EXCEPT !.pc = "build",
                          !.config = config, !.valid_config = valid_config,
                          !.eval_config = eval_config,
                          !.lists = [Train |-> training_list,
                                     Validation |-> validation_list,
                                     Test |-> testing_list],
                          !.computed = [Train |-> e1, Validation |-> e2, Test |-> e3]]
    /\ UNCHANGED <<gen, drv, ep>>

\* main from the three generators to the three models.  Every generator is
\* made with config's batch_size, embedding_size and num_steps.
MainBuild ==
    /\ main.pc = "build"
    /\ LET c == heap[main.config]
       IN  gen' = [g \in Gens |-> NewGen(main.lists[g], c.embedding_size, c.num_steps,
                                         c.batch_size, c.embedding_size)]
    /\ main' = [main EXCEPT !.pc = "epoch", !.i = 0,
                   !.models = [m |-> WPModel(TRUE, main.config, heap),
                               mvalid |-> WPModel(FALSE, main.valid_config, heap),
                               mtest |-> WPModel(FALSE, main.eval_config, heap)]]
    /\ UNCHANGED <<drv, heap, ep>>

\* ---------------------------------------------------------- run_epoch
ZeroState == 0

\* session.run(model.initial_state)
InitialState(model) == ZeroState

\* session.run(fetches, feed_dict): the cost and the final state the engine
\* computes from the state fed and the batch.
SessionRun(state, x, y) ==
    [cost |-> 1, final_state |-> ((3 * state + y[1][1]) % 5) + 1]

\* The feed is accepted when x and y have the placeholders' shapes.
FeedAccepted(model, x, y) == ShapeX(x) = model.inputs /\ ShapeY(y) = model.targets

\* The state set back to the initial state after a batch.
ResetState(vals, model) == InitialState(model)

\* state = vals["final_state"]
CarryState(vals, model) == vals.final_state

\* run_epoch(session, generator, model, eval_op, verbose) up to its loop.
RunEpochEnter(g, m, verbose) ==
    [NoEpoch EXCEPT !.pc = "loop", !.gen = g, !.model = m, !.verbose = verbose,
                    !.state = InitialState(main.models[m])]

\* `for step in range(config.epoch_size)`: the next step calls
\* generator.next(), or the range is exhausted.
RunEpochLoop ==
    /\ ep.pc = "loop"
    /\ IF ep.step < heap[main.models[ep.model].config].epoch_size
       THEN /\ gen' = [gen EXCEPT ![ep.gen] = Resume(gen[ep.gen])]
            /\ ep' = [ep EXCEPT !.pc = "next"]
       ELSE /\ ep' = [ep EXCEPT !.pc = "exit"]
            /\ UNCHANGED gen
    /\ UNCHANGED <<drv, heap, main>>

\* The loop body once generator.next() has returned a batch: the feed, the
\* engine's step, the carried state and the verbose report.
RunEpochStep ==
    /\ ep.pc = "next"
    /\ gen[ep.gen].pc = "yield"
    /\ LET model == main.models[ep.model]
           config == heap[model.config]
           x == gen[ep.gen].out.x
           y == gen[ep.gen].out.y
           vals == SessionRun(ep.state, x, y)
           ran == [ep EXCEPT !.runs = Min(ep.runs + 1, 2), !.fed = ep.state, !.prevFinal = ep.lastFinal,
                             !.lastFinal = vals.final_state,
                             !.state = CarryState(vals, model),
                             !.costs = ep.costs + vals.cost,
                             !.iters = ep.iters + config.num_steps]
       IN  IF ~FeedAccepted(model, x, y)
           THEN ep' = [ep EXCEPT !.pc = "error", !.err = "ValueError"]
           ELSE IF ep.verbose /\ config.epoch_size \div 10 = 0
           THEN ep' = [ran EXCEPT !.pc = "error", !.err = "ZeroDivisionError"]
           ELSE ep' = [ran EXCEPT !.pc = "loop", !.step = ep.step + 1]
    /\ UNCHANGED <<gen, drv, heap, main>>

\* generator.next() raised: run_epoch catches nothing.
RunEpochRaise ==
    /\ ep.pc = "next"
    /\ gen[ep.gen].pc \in {"raised", "exhausted"}
    /\ ep' = [ep EXCEPT !.pc = "error",
                 !.err = IF gen[ep.gen].pc = "raised" THEN "ValueError" ELSE "StopIteration"]
    /\ UNCHANGED <<gen, drv, heap, main>>

\* return np.exp(costs / iters)
RunEpochReturn ==
    /\ ep.pc = "exit"
    /\ IF ep.iters = 0
       THEN ep' = [ep EXCEPT !.pc = "error", !.err = "ZeroDivisionError"]
       ELSE ep' = [ep EXCEPT !.pc = "returned"]
    /\ UNCHANGED <<gen, drv, heap, main>>

\* ------------------------------------------------- main's epoch loop
\* `for i in range(config.max_max_epoch)`: the training pass of epoch i, or
\* after the last epoch the test pass.
MainEpoch ==
    /\ main.pc = "epoch"
    /\ IF main.i < heap[main.config].max_max_epoch
       THEN /\ ep' = RunEpochEnter("Train", "m", TRUE)
            /\ main' = [main EXCEPT !.pc = "train"]
       ELSE /\ ep' = RunEpochEnter("Test", "mtest", FALSE)
            /\ main' = [main EXCEPT !.pc = "test"]
    /\ UNCHANGED <<gen, drv, heap>>

\* The training pass returned: the validation pass.
MainValid ==
    /\ main.pc = "train"
    /\ ep.pc = "returned"
    /\ ep' = RunEpochEnter("Validation", "mvalid", FALSE)
    /\ main' = [main EXCEPT !.pc = "valid"]
    /\ UNCHANGED <<gen, drv, heap>>

\* A validation pass returned: the next epoch.  The test pass returned:
\* main goes on to save the model and is done.
MainReturned ==
    /\ main.pc \in {"valid", "test"}
    /\ ep.pc = "returned"
    /\ ep' = NoEpoch
    /\ IF main.pc = "valid"
       THEN main' = [main EXCEPT !.pc = "epoch", !.i = main.i + 1]
       ELSE main' = [main EXCEPT !.pc = "done"]
    /\ UNCHANGED <<gen, drv, heap>>

\* The sizes, in words, of the files a manifest may name.
MainFileSizes == {20, 210}

Manifests == UNION {[1..n -> MainFileSizes] : n \in 0..MaxManifest}

InitMain ==
    /\ \E model \in Presets, manifest \in Manifests :
          main = [pc |-> "start", model |-> model, manifest |-> manifest,
                  config |-> "none", valid_config |-> "none", eval_config |-> "none",
                  lists |-> [g \in Gens |-> <<>>], computed |-> [g \in Gens |-> 0],
                  models |-> <<>>, i |-> 0]
    /\ gen = [g \in Gens |-> NoGen]
    /\ drv = "off"
    /\ heap = <<>>
    /\ ep = NoEpoch

NextMain ==
    \/ MainConfigure
    \/ MainBuild
    \/ MainEpoch
    \/ MainValid
    \/ MainReturned
    \/ RunEpochLoop
    \/ RunEpochStep
    \/ RunEpochRaise
    \/ RunEpochReturn
    \/ \E g \in Gens : GenForFiles(g)
    \/ \E g \in Gens : GenForRange(g)

SpecMain == InitMain /\ [][NextMain]_vars

\* ------------------------------------------------ the pipeline's claims
Created == {g \in Gens : gen[g].pc # "none"}

\* A file of n words has a first full window and its targets: batch_len > num_steps.
YieldsBatch(n, batch_size, num_steps) == (n \div batch_size) > num_steps

AnyYields(r) == \E k \in 1..Len(r.files) : YieldsBatch(r.files[k], r.batch_size, r.num_steps)

\* C1: the k-th batch emitted from a file (k = 0, 1, ...) takes its x ids from
\* columns [k*num_steps, (k+1)*num_steps) of the reshaped array.
C1_ConsecutiveWindows ==
    \A g \in Created :
        LET r == gen[g]
        IN  r.pc = "yield" =>
                r.out.x = Embed(r.dim, Columns(r.data, r.batch_size,
                                               (r.kfile - 1) * r.num_steps,
                                               r.kfile * r.num_steps))

\* C2: one pass over a file emits max(0, (batch_len - 1) div num_steps)
\* batches; the ids 1..10 with batch_size 2 and num_steps 2 give
\* ([[1,2],[6,7]], [[2,3],[7,8]]) and then ([[3,4],[8,9]], [[4,5],[9,10]]).
C2_BatchCount ==
    \A g \in Created :
        LET r == gen[g]
        IN  /\ (r.pc = "files" /\ r.fidx >= 1) =>
                   r.kfile = Max(0, (r.batch_len - 1) \div r.num_steps)
            /\ (r.pc = "yield" /\ r.files[r.fidx] = 10 /\ r.batch_size = 2 /\ r.num_steps = 2) =>
                   /\ r.kfile = 1 => /\ r.out.x = Embed(r.dim, <<<<1, 2>>, <<6, 7>>>>)
                                     /\ r.out.y = <<<<2, 3>>, <<7, 8>>>>
                   /\ r.kfile = 2 => /\ r.out.x = Embed(r.dim, <<<<3, 4>>, <<8, 9>>>>)
                                     /\ r.out.y = <<<<4, 5>>, <<9, 10>>>>
                   /\ r.kfile <= 2

\* C3: a file with batch_len <= num_steps contributes no batch and raises
\* nothing; a window narrower than num_steps is dropped, never reshaped
\* (the reshape of a narrow slice is the only thing that raises).
C3_ShortFileSkipped ==
    \A g \in Created :
        LET r == gen[g]
        IN  /\ r.pc # "raised"
            /\ (r.fidx >= 1 /\ r.batch_len <= r.num_steps) => r.kfile = 0

\* C4: in every emitted batch, y[b, t] is the id one column to the right, in
\* the same row, of the id whose embedding is x[b, t]; y has num_steps columns.
C4_TargetsShiftedByOne ==
    \A g \in Created :
        LET r == gen[g]
        IN  r.pc = "yield" =>
              /\ Len(r.out.x) = r.batch_size
              /\ Len(r.out.y) = r.batch_size
              /\ \A b \in 1..r.batch_size :
                    /\ Len(r.out.x[b]) = r.num_steps
                    /\ Len(r.out.y[b]) = r.num_steps
                    /\ \A t \in 1..r.num_steps :
                          /\ \E c \in 1..r.batch_len :
                                r.out.x[b][t] = EmbeddingEntry(r.dim, r.data[b][c])[3]
                          /\ \A c \in 1..r.batch_len :
                                r.out.x[b][t] = EmbeddingEntry(r.dim, r.data[b][c])[3] =>
                                    /\ c + 1 <= r.batch_len
                                    /\ r.out.y[b][t] = r.data[b][c + 1]

\* A second batch of a two-row array: the window starts past column 0.
C4_Witness ==
    \E g \in Created : gen[g].pc = "yield" /\ gen[g].batch_size = 2 /\ gen[g].kfile = 2

\* C8: when some file yields a batch the draws never end, the first batch
\* after the file list wraps is the very first batch, and every scan of the
\* list emits as many batches as the first.
C8_Cycles ==
    \A g \in Created :
        LET r == gen[g]
        IN  AnyYields(r) =>
              /\ r.pc \notin {"raised", "exhausted"}
              /\ (r.pc = "yield" /\ r.scans >= 1 /\ r.kscan = 1) => r.out = r.first
              /\ r.scans = 2 => r.lastscan = r.period

\* C10: a draw returns after opening at most len(files) files when some file
\* yields a batch; otherwise it re-scans forever, neither yielding nor raising.
C10_DrawReturns ==
    \A g \in Created :
        LET r == gen[g]
        IN  /\ r.pc \notin {"raised", "exhausted"}
            /\ AnyYields(r) => r.visited <= Len(r.files)
            /\ ~AnyYields(r) => r.pc # "yield"

\* ------------------------------------------------- the driver's claims
\* C5: a training pass draws the epoch size computed over the training list,
\* a validation pass the one computed over the validation list.
C5_EpochSizePerList ==
    (ep.pc = "exit" /\ ep.gen \in {"Train", "Validation"}) =>
        ep.step = Max(0, main.computed[ep.gen])

\* C6: run_epoch never fails with a division (or modulo) by zero, whatever
\* epoch size get_epoch_size returned, verbose or not.
C6_NoDivisionByZero == ep.err # "ZeroDivisionError"

\* C7: the state fed with the first batch of a pass is the zero state, the
\* state fed with every later batch is the final state the batch before it
\* returned, and the state held for the next batch is the last final state.
C7_StateCarried ==
    /\ (ep.pc # "idle" /\ ep.runs = 0) => ep.state = ZeroState
    /\ ep.runs = 1 => ep.fed = ZeroState
    /\ ep.runs = 2 => ep.fed = ep.prevFinal
    /\ ep.runs >= 1 => ep.state = ep.lastFinal

\* A validation pass past its sixth batch: the pipeline has wrapped around
\* its file list within the pass.
C7_Witness ==
    /\ ep.gen = "Validation"
    /\ ep.runs = 2
    /\ ep.step >= 6
    /\ gen["Validation"].scans >= 1

\* C9: every batch about to be fed has the shape of the model's
\* placeholders: [batch_size, num_steps, embedding_size] and
\* [batch_size, num_steps] of the config the model was built with.
C9_FeedShapes ==
    (ep.pc = "next" /\ gen[ep.gen].pc = "yield") =>
        LET c == heap[main.models[ep.model].config]
        IN  /\ ShapeX(gen[ep.gen].out.x) = <<c.batch_size, c.num_steps, c.embedding_size>>
            /\ ShapeY(gen[ep.gen].out.y) = <<c.batch_size, c.num_steps>>

====
